---- MODULE Spec2Model ----
(***************************************************************************)
(* Agent session lifecycle and per-sender turn protocol of the chat-agent  *)
(* service: AgentManager (the session registry), ChatAgent (one session),  *)
(* the /agents HTTP handlers, and the room provider / memory service /     *)
(* language model as the environment.                                      *)
(*                                                                         *)
(* The service is a single asyncio event loop: a coroutine runs without    *)
(* interruption until it awaits an operation that really suspends (a       *)
(* network call).  Every action below is one such uninterrupted run.       *)
(***************************************************************************)
EXTENDS Integers, Sequences, FiniteSets, Bags, TLC

\* ------------------------------------------------------------------ bounds
MaxAgents == 2      \* ChatAgent objects constructed in one run
MaxCalls == 2       \* API coroutines suspended at the same time
MaxMsgs == 1        \* data_received events delivered in one run

\* ------------------------------------------------------------- vocabulary
\* Text is a sequence of characters, so that strip() is computed, not assumed.
WS == " "
RoomNames == { << "r" >>, << WS >> }
HumanUsers == { "alice" }

VARIABLES
    active_agents,   \* AgentManager.active_agents: room name -> agent id
    agents,          \* every ChatAgent constructed so far, by id (1..Len)
    calls,           \* the suspended coroutines of the API layer, a bag of frames
    tasks,           \* _handle_message tasks, by id (1..Len)
    last,            \* what the last step returned to its caller, if it returned
    svc              \* the request a stateless handler (memory service, /rooms)
                     \* is processing: its input, adapter calls and response

vars == << active_agents, agents, calls, tasks, last, svc >>

\* ---------------------------------------------------------------- helpers
None == "None"

RECURSIVE LStrip(_)
LStrip(s) == IF s # << >> /\ Head(s) = WS THEN LStrip(Tail(s)) ELSE s

RECURSIVE RStrip(_)
RStrip(s) == IF s # << >> /\ s[Len(s)] = WS THEN RStrip(SubSeq(s, 1, Len(s) - 1)) ELSE s

\* str.strip()
Strip(s) == RStrip(LStrip(s))

\* `not room_name or len(room_name.strip()) == 0`
BlankName(room) == room = << >> \/ Len(Strip(room)) = 0

\* settings.AGENT_NAME and the identity derived from it
agent_name == "AI Assistant"
agent_username == "ai_assistant_agent"

\* the provider-assigned sid of agent a's local participant
Sid(a) == "PA_" \o ToString(a)

Registered(room) == room \in DOMAIN active_agents

\* ChatAgent.__init__
NewAgent(room) ==
    [ room_name |-> room,
      room |-> None,              \* self.room: None or the rtc.Room handle
      conn |-> "disconnected",    \* connection_state of the rtc.Room it created
      participant_id |-> None,
      running |-> FALSE,          \* self._running
      conversation_history |-> << >> ]   \* sender -> list of turns

\* ChatAgent.is_connected
is_connected(ag) == ag.room # None /\ ag.conn = "connected"

\* variant: a status that reports every room as active
get_agent_status_always_active(room) ==
    [ active |-> TRUE, participant_id |-> None, connected |-> FALSE, room_name |-> room ]

\* AgentManager.get_agent_status
get_agent_status(room) ==
    IF Registered(room)
    THEN [ active |-> TRUE,
           participant_id |-> agents[active_agents[room]].participant_id,
           connected |-> is_connected(agents[active_agents[room]]),
           room_name |-> room ]
    ELSE [ active |-> FALSE, participant_id |-> None, connected |-> FALSE,
           room_name |-> room ]

\* What a step hands back: the AgentManager method that finished (`entered`,
\* with its return value or `raised`) and the HTTP status of the handler's
\* response (`code`, 0 when the caller is not an HTTP handler).
Output(op, via, room, entered, raised, status, pid, active, connected, code) ==
    [ op |-> op, via |-> via, room |-> room, entered |-> entered, raised |-> raised,
      status |-> status, participant_id |-> pid, active |-> active,
      connected |-> connected, code |-> code ]
NoOutput == Output("none", "none", << >>, "none", FALSE, "none", None, FALSE, FALSE, 0)

\* the start handler answers without AgentManager.start_agent having run
StartRejected(room, code) ==
    Output("start", "handler", room, "none", FALSE, "none", None, FALSE, FALSE, code)
\* start_agent returned {participant_id, status}; the handler answers 200
StartReturned(room, status, pid) ==
    Output("start", "handler", room, "start_agent", FALSE, status, pid, TRUE, FALSE, 200)
\* start_agent raised; the handler answers 500 AGENT_START_FAILED
StartRaised(room) ==
    Output("start", "handler", room, "start_agent", TRUE, "none", None, FALSE, FALSE, 500)
\* stop_agent returned None; the stop handler answers 200, cleanup goes on
StopReturned(room, via) ==
    Output("stop", via, room, "stop_agent", FALSE, "none", None, FALSE, FALSE,
           IF via = "handler" THEN 200 ELSE 0)
\* stop_agent raised; the stop handler answers 500, cleanup logs it
StopRaised(room, via) ==
    Output("stop", via, room, "stop_agent", TRUE, "none", None, FALSE, FALSE,
           IF via = "handler" THEN 500 ELSE 0)
\* variant: the stop handler answering 404 where the code answers 200
StopAnsweredNotFound(room, code) ==
    Output("stop", "handler", room, "none", FALSE, "none", None, FALSE, FALSE,
           IF code = 200 THEN 404 ELSE code)
\* the stop handler answers by itself (400 blank name, 200 no active agent)
StopAnswered(room, code) ==
    Output("stop", "handler", room, "none", FALSE, "none", None, FALSE, FALSE, code)
\* get_agent_status returned st; the status handler answers 200
StatusReturned(room, st) ==
    Output("status", "handler", room, "get_agent_status", FALSE, "none",
           st.participant_id, st.active, st.connected, 200)
StatusRejected(room) ==
    Output("status", "handler", room, "none", FALSE, "none", None, FALSE, FALSE, 400)

\* a suspended coroutine of the API layer
Frame(op, via, room, agent, pc) ==
    [ op |-> op, via |-> via, room |-> room, agent |-> agent, pc |-> pc ]
Suspended == BagToSet(calls)
CanSuspend == BagCardinality(calls) < MaxCalls
Suspend(f) == calls (+) SetToBag({f})
Resume(f) == calls (-) SetToBag({f})
Drop(f, k) == [ x \in DOMAIN f \ {k} |-> f[x] ]

\* no stateless handler is running
NoRequest == [ op |-> "none" ]

Init ==
    /\ active_agents = << >>
    /\ agents = << >>
    /\ calls = EmptyBag
    /\ tasks = << >>
    /\ last = NoOutput
    /\ svc = NoRequest

\* ------------------------------------------------------ agent field updates
SetAgent(a, ag) == [ agents EXCEPT ![a] = ag ]

\* ChatAgent._cleanup once `await self.room.disconnect()` has returned (or
\* with no room): the rtc.Room is disconnected, room = None, participant_id = None
\* variant: a cleanup that disconnects but keeps the handle and the participant id
CleanedKeepingHandle(ag) == [ ag EXCEPT !.conn = "disconnected" ]

Cleaned(ag) == [ ag EXCEPT !.room = None, !.conn = "disconnected", !.participant_id = None ]

\* --------------------------------------------------- POST /agents/start
\* The handler up to its first suspension: the blank-name check, then the
\* get_room request to the provider.
StartRequest(room) ==
    /\ IF BlankName(room)
       THEN /\ last' = StartRejected(room, 400)
            /\ UNCHANGED calls
       ELSE /\ CanSuspend
            /\ calls' = Suspend(Frame("start", "handler", room, 0, "get_room"))
            /\ last' = NoOutput
    /\ UNCHANGED << active_agents, agents, tasks >>

\* variant: a start handler that ignores get_room's ValueError and goes on
\* to AgentManager.start_agent
GetRoomFailsIgnored(f, absent) ==
    /\ f \in Suspended /\ f.pc = "get_room"
    /\ IF absent
       THEN /\ Len(agents) < MaxAgents
            /\ agents' = Append(agents, [ NewAgent(f.room) EXCEPT !.room = "Room" ])
            /\ calls' = Resume(f) (+) SetToBag({ Frame("start", "handler", f.room,
                                                        Len(agents) + 1, "connecting") })
            /\ last' = NoOutput
       ELSE /\ last' = StartRejected(f.room, 500)
            /\ calls' = Resume(f)
            /\ UNCHANGED agents
    /\ UNCHANGED << active_agents, tasks >>

\* get_room raised: the provider lists no room of that name (ValueError ->
\* 404), or the request failed (-> 500).  AgentManager.start_agent is not entered.
GetRoomFails(f, absent) ==
    /\ f \in Suspended /\ f.pc = "get_room"
    /\ last' = StartRejected(f.room, IF absent THEN 404 ELSE 500)
    /\ calls' = Resume(f)
    /\ UNCHANGED << active_agents, agents, tasks >>

\* variant: start_agent without its `if room_name in self.active_agents` check
start_agent_unchecked(room) == FALSE

\* get_room returned the room.  AgentManager.start_agent, first run: the
\* registration check, and for an unregistered room ChatAgent(...) and agent.start() up to `await room.connect`.
start_agent_registered(room) == Registered(room)

StartAgentEnter(f) ==
    /\ f \in Suspended /\ f.pc = "get_room"
    /\ LET room == f.room
           a == Len(agents) + 1
       IN  IF start_agent_registered(room)
           THEN /\ last' = StartReturned(room, "already_active",
                                         agents[active_agents[room]].participant_id)
                /\ calls' = Resume(f)
                /\ UNCHANGED agents
           ELSE /\ Len(agents) < MaxAgents
                /\ \E token_ok \in BOOLEAN :
                      IF token_ok
                      THEN /\ agents' = Append(agents, [ NewAgent(room) EXCEPT !.room = "Room" ])
                           /\ calls' = Resume(f) (+) SetToBag({ Frame("start", "handler", room, a, "connecting") })
                           /\ last' = NoOutput
                      ELSE \* generate_access_token raised: _cleanup with no room, re-raise
                           /\ agents' = Append(agents, Cleaned(NewAgent(room)))
                           /\ calls' = Resume(f)
                           /\ last' = StartRaised(room)
    /\ UNCHANGED << active_agents, tasks >>

\* The provider accepts the connection; room.connect has not yet returned to
\* the coroutine, and room events may already be delivered.
RoomConnects(f) ==
    /\ f \in Suspended /\ f.pc = "connecting"
    /\ agents' = SetAgent(f.agent, [ agents[f.agent] EXCEPT !.conn = "connected" ])
    /\ calls' = Resume(f) (+) SetToBag({ [ f EXCEPT !.pc = "connected" ] })
    /\ last' = NoOutput
    /\ UNCHANGED << active_agents, tasks >>

\* `await self.room.connect(...)` returns: _running = True, then start_agent
\* registers the agent and returns "started".
Registering(room, a) == (room :> a) @@ active_agents

ConnectReturns(f) ==
    /\ f \in Suspended /\ f.pc = "connected"
    /\ agents' = SetAgent(f.agent, [ agents[f.agent] EXCEPT !.running = TRUE ])
    /\ active_agents' = Registering(f.room, f.agent)
    /\ last' = StartReturned(f.room, "started", agents[f.agent].participant_id)
    /\ calls' = Resume(f)
    /\ UNCHANGED tasks

\* room.connect raised: the except branch of ChatAgent.start runs _cleanup,
\* which awaits room.disconnect() on the room it created.
ConnectFails(f) ==
    /\ f \in Suspended /\ f.pc = "connecting"
    /\ calls' = Resume(f) (+) SetToBag({ [ f EXCEPT !.pc = "cleanup" ] })
    /\ last' = NoOutput
    /\ UNCHANGED << active_agents, agents, tasks >>

\* disconnect() returned inside _cleanup: room = None, participant_id = None,
\* the exception is re-raised through start_agent to the handler (500).
FailedStart(ag) == Cleaned(ag)

StartCleanupReturns(f) ==
    /\ f \in Suspended /\ f.pc = "cleanup"
    /\ agents' = SetAgent(f.agent, FailedStart(agents[f.agent]))
    /\ last' = StartRaised(f.room)
    /\ calls' = Resume(f)
    /\ UNCHANGED << active_agents, tasks >>

\* ---------------------------------------------------- POST /agents/stop
\* AgentManager.stop_agent is entered by the stop handler (via = "handler")
\* and by AgentManager.cleanup for the room names it listed (via = "cleanup").
\* One run: the handler's blank-name and status checks, stop_agent's
\* registration check, agent.stop() up to `await self.room.disconnect()`.
Unregistering(room) == Drop(active_agents, room)

StopRequest(room, via) ==
    /\ IF via = "handler" /\ BlankName(room)
       THEN /\ last' = StopAnswered(room, 400)
            /\ UNCHANGED << active_agents, agents, calls >>
       ELSE IF via = "handler" /\ ~get_agent_status(room).active
       THEN \* the handler answers itself; stop_agent is not called
            /\ last' = StopAnswered(room, 200)
            /\ UNCHANGED << active_agents, agents, calls >>
       ELSE IF ~Registered(room)
       THEN \* stop_agent: "No active agent in room", return
            /\ last' = StopReturned(room, via)
            /\ UNCHANGED << active_agents, agents, calls >>
       ELSE LET a == active_agents[room] IN
            IF ~agents[a].running
            THEN \* agent.stop() returns at once; del active_agents[room]
                 /\ active_agents' = Unregistering(room)
                 /\ last' = StopReturned(room, via)
                 /\ UNCHANGED << agents, calls >>
            ELSE IF agents[a].room # None
            THEN \* _running = False; _cleanup suspends in room.disconnect()
                 /\ CanSuspend
                 /\ agents' = SetAgent(a, [ agents[a] EXCEPT !.running = FALSE ])
                 /\ calls' = Suspend(Frame("stop", via, room, a, "disconnecting"))
                 /\ last' = NoOutput
                 /\ UNCHANGED active_agents
            ELSE \* no room handle: _cleanup does not suspend
                 /\ agents' = SetAgent(a, Cleaned([ agents[a] EXCEPT !.running = FALSE ]))
                 /\ active_agents' = Unregistering(room)
                 /\ last' = StopReturned(room, via)
                 /\ UNCHANGED calls
    /\ UNCHANGED tasks

\* disconnect() returned inside agent.stop(): room = None, participant_id =
\* None, then `del self.active_agents[room_name]`, a KeyError when the entry
\* is gone (re-raised; the handler answers 500, cleanup logs it).
StopDisconnectReturns(f) ==
    /\ f \in Suspended /\ f.pc = "disconnecting"
    /\ agents' = SetAgent(f.agent, Cleaned(agents[f.agent]))
    /\ IF Registered(f.room)
       THEN /\ active_agents' = Unregistering(f.room)
            /\ last' = StopReturned(f.room, f.via)
       ELSE /\ last' = StopRaised(f.room, f.via)
            /\ UNCHANGED active_agents
    /\ calls' = Resume(f)
    /\ UNCHANGED tasks

\* --------------------------------------------- GET /agents/status/{room}
StatusRequest(room) ==
    /\ last' = IF BlankName(room) THEN StatusRejected(room)
               ELSE StatusReturned(room, get_agent_status(room))
    /\ UNCHANGED << active_agents, agents, calls, tasks >>

\* --------------------------------------------------------- room events
\* Event handlers registered by _setup_event_handlers on the rtc.Room the
\* agent created; they close over the agent, whatever self.room is by then.

\* on_connected: self.participant_id = self.room.local_participant.sid
\* (an AttributeError inside the emitter when self.room is None).
on_connected(a) ==
    IF agents[a].room # None
    THEN [ agents[a] EXCEPT !.participant_id = Sid(a) ]
    ELSE agents[a]

EvConnected(a) ==
    /\ a \in DOMAIN agents /\ agents[a].conn = "connected"
    /\ agents' = SetAgent(a, on_connected(a))
    /\ last' = NoOutput
    /\ UNCHANGED << active_agents, calls, tasks >>

\* on_disconnected: self._running = False
on_disconnected(a) == [ agents[a] EXCEPT !.running = FALSE ]

\* The provider drops the connection (room closed, participant removed,
\* network loss): the rtc.Room goes to disconnected and emits "disconnected".
EvDisconnected(a) ==
    /\ a \in DOMAIN agents /\ agents[a].conn = "connected"
    /\ agents' = SetAgent(a, [ on_disconnected(a) EXCEPT !.conn = "disconnected" ])
    /\ last' = NoOutput
    /\ UNCHANGED << active_agents, calls, tasks >>

\* ------------------------------------------------------ the turn protocol
\* A data packet: bytes that json.loads either rejects (or that carry a
\* non-string "message"), or a JSON object with or without a "message" key.
Malformed == [ valid |-> FALSE, has_message |-> FALSE, message |-> << >> ]
NoMessageKey == [ valid |-> TRUE, has_message |-> FALSE, message |-> << >> ]
WithMessage(s) == [ valid |-> TRUE, has_message |-> TRUE, message |-> s ]
RawTexts == { << WS, WS >>, << WS, "h", "i" >> }
Payloads == { Malformed, NoMessageKey } \cup { WithMessage(s) : s \in RawTexts }
Senders == HumanUsers \cup { agent_username }

\* what the language model may answer: "" or a text (a None content makes
\* len(content) raise inside generate_response, which is the failed call)
LlmContents == { << >>, << "o", "k" >> }
\* what search_memories may return: a list of memory texts ("" = no text field)
MemoryLists == { << >>, << << "m" >> >>, << << >> >> }

\* the fixed reply of _generate_response's except branch
FALLBACK_RESPONSE == << "s", "o", "r", "r", "y" >>
HistoryWindow == 6

\* variant: the message text taken without strip()
message_text_untrimmed(payload) == IF payload.has_message THEN payload.message ELSE << >>

\* message_data.get('message', '').strip()
message_text(payload) == Strip(IF payload.has_message THEN payload.message ELSE << >>)

Turn(role, content) == [ role |-> role, content |-> content ]

history_of(ag, username) ==
    IF username \in DOMAIN ag.conversation_history
    THEN ag.conversation_history[username] ELSE << >>

\* self.conversation_history[username].append(turn), creating the list if absent
AppendTurn(ag, username, turn) ==
    [ ag EXCEPT !.conversation_history =
        (username :> Append(history_of(ag, username), turn)) @@ ag.conversation_history ]

\* seq[-n:]
LastN(seq, n) == IF Len(seq) <= n THEN seq ELSE SubSeq(seq, Len(seq) - n + 1, Len(seq))

\* the `messages` list built by _generate_response
build_messages(ag, username, message) ==
    LET recent == LastN(history_of(ag, username), HistoryWindow)
        msgs == [ i \in 1..Len(recent) |-> Turn(recent[i].role, recent[i].content) ]
    IN  IF msgs = << >> \/ msgs[Len(msgs)].content # message
        THEN Append(msgs, Turn("user", message))
        ELSE msgs

\* memory_texts of generate_context_summary: the memories that carry a text
memory_texts(memories) == SelectSeq(memories, LAMBDA m : m # << >>)

NoPacket == [ type |-> "none" ]

\* variant: a packet signed with the display name instead of the identity
message_data_by_name(message) ==
    [ message |-> message, sender |-> agent_name, timestamp |-> "now", type |-> "chat" ]

\* message_data of _send_message; the timestamp is datetime.now().isoformat()
message_data(message) ==
    [ message |-> message, sender |-> agent_username, timestamp |-> "now", type |-> "chat" ]

NewTask(a, sender, payload) ==
    [ agent |-> a, sender |-> sender, payload |-> payload, pc |-> "spawned",
      text |-> << >>, context |-> << >>, messages |-> << >>, response |-> << >>,
      trace |-> << >>, outcome |-> "running",
      packet |-> NoPacket,        \* what _send_message handed to publish_data
      result |-> "pending" ]      \* how the asyncio task ended: "returned" or "raised"

SetTask(t, task) == [ tasks EXCEPT ![t] = task ]
Traced(task, ev) == [ task EXCEPT !.trace = Append(task.trace, ev) ]
\* every exit of _handle_message is a `return` or the end of the except
\* branch (`except Exception` logs and falls through): the task returns None
Finished(task, outcome) ==
    [ task EXCEPT !.pc = "done", !.outcome = outcome, !.result = "returned" ]

\* on_data_received: asyncio.create_task(self._handle_message(data, participant))
DataReceived(a, sender, payload) ==
    /\ a \in DOMAIN agents /\ agents[a].conn = "connected"
    /\ tasks' = Append(tasks, NewTask(a, sender, payload))
    /\ last' = NoOutput
    /\ UNCHANGED << active_agents, agents, calls >>

EvDataReceived(a, sender, payload) ==
    /\ Len(tasks) < MaxMsgs
    /\ DataReceived(a, sender, payload)

\* _handle_message from its first line to `await add_memory(...)` for the user turn
\* variant: the own-message check comparing with the display name
IsOwnMessageByName(sender) == sender = agent_name
IsOwnMessage(sender) == sender = agent_username
IsEmptyText(text) == text = << >>

HandleMessageStart(t) ==
    /\ t \in DOMAIN tasks /\ tasks[t].pc = "spawned"
    /\ LET task == tasks[t]
           a == task.agent
           text == message_text(task.payload)
       IN  IF IsOwnMessage(task.sender)
           THEN /\ tasks' = SetTask(t, Finished(task, "ignored_self"))
                /\ UNCHANGED agents
           ELSE IF ~task.payload.valid
           THEN /\ tasks' = SetTask(t, Finished(task, "error"))
                /\ UNCHANGED agents
           ELSE IF IsEmptyText(text)
           THEN /\ tasks' = SetTask(t, Finished(task, "ignored_empty"))
                /\ UNCHANGED agents
           ELSE /\ agents' = SetAgent(a, AppendTurn(agents[a], task.sender, Turn("user", text)))
                /\ tasks' = SetTask(t, Traced([ task EXCEPT !.text = text, !.pc = "add_user" ],
                                              "call:add_memory:user_message"))
    /\ last' = NoOutput
    /\ UNCHANGED << active_agents, calls >>

\* what follows a successful user-turn write: _generate_response up to
\* `await search_memories(...)`
AfterUserPersisted(task) ==
    Traced(Traced([ task EXCEPT !.pc = "search" ], "ok:add_memory:user_message"),
           "call:search_memories")

\* variant: a failed user-turn write that is logged and the turn goes on
UserWriteIgnored(task) ==
    Traced(Traced([ task EXCEPT !.pc = "search" ], "fail:add_memory:user_message"),
           "call:search_memories")

\* add_memory for the user turn raised: _handle_message's except branch logs
\* the error and the task ends
UserWriteFailed(task) == Finished(Traced(task, "fail:add_memory:user_message"), "error")

\* add_memory for the user turn returns or raises
AddUserReturns(t, ok) ==
    /\ t \in DOMAIN tasks /\ tasks[t].pc = "add_user"
    /\ tasks' = SetTask(t, IF ok THEN AfterUserPersisted(tasks[t])
                           ELSE UserWriteFailed(tasks[t]))
    /\ last' = NoOutput
    /\ UNCHANGED << active_agents, agents, calls >>

\* _generate_response returned `response` to _handle_message: `if response:`
\* append the assistant turn and await add_memory(type "ai_response");
\* otherwise the task ends with nothing appended, stored or sent.
Truthy(response) == response # << >>

GotResponse(t, response, ev) ==
    LET task == Traced([ tasks[t] EXCEPT !.response = response ], ev)
        a == task.agent
    IN  IF Truthy(response)
        THEN /\ agents' = SetAgent(a, AppendTurn(agents[a], task.sender,
                                                 Turn("assistant", response)))
             /\ tasks' = SetTask(t, Traced([ task EXCEPT !.pc = "add_ai" ],
                                           "call:add_memory:ai_response"))
        ELSE /\ tasks' = SetTask(t, Finished(task, "no_response"))
             /\ UNCHANGED agents

\* _generate_response after the context summary is known: build `messages`
\* from the history as it is now and await llm_client.generate_response
RequestCompletion(t, context, ev) ==
    LET task == tasks[t]
        ag == agents[task.agent]
    IN  /\ tasks' = SetTask(t, Traced(Traced([ task EXCEPT
                                   !.context = context,
                                   !.messages = build_messages(ag, task.sender, task.text),
                                   !.pc = "llm" ], ev), "call:generate_response"))
        /\ UNCHANGED agents

\* search_memories returns a list or raises.  A raise is caught by
\* _generate_response, which returns the fallback.  An empty list (or one
\* without texts) makes generate_context_summary return "" without a call.
SearchReturns(t, ok, memories) ==
    /\ t \in DOMAIN tasks /\ tasks[t].pc = "search"
    /\ IF ~ok
       THEN GotResponse(t, FALLBACK_RESPONSE, "fail:search_memories")
       ELSE IF memory_texts(memories) = << >>
       THEN RequestCompletion(t, << >>, "ok:search_memories")
       ELSE /\ tasks' = SetTask(t, Traced(Traced([ tasks[t] EXCEPT !.pc = "summary" ],
                                                 "ok:search_memories"),
                                          "call:generate_context_summary"))
            /\ UNCHANGED agents
    /\ last' = NoOutput
    /\ UNCHANGED << active_agents, calls >>

\* the summarisation call returns a summary, or fails and yields ""
SummaryReturns(t, ok) ==
    /\ t \in DOMAIN tasks /\ tasks[t].pc = "summary"
    /\ RequestCompletion(t, IF ok THEN << "s", "u", "m" >> ELSE << >>,
                         IF ok THEN "ok:generate_context_summary"
                         ELSE "fail:generate_context_summary")
    /\ last' = NoOutput
    /\ UNCHANGED << active_agents, calls >>

\* variant: a failed completion that yields no reply instead of the fallback
generated_or_empty(ok, content) == IF ok THEN content ELSE << >>

\* the completion call returns content, or raises and the fallback is used
generated(ok, content) == IF ok THEN content ELSE FALLBACK_RESPONSE

LlmReturns(t, ok, content) ==
    /\ t \in DOMAIN tasks /\ tasks[t].pc = "llm"
    /\ GotResponse(t, generated(ok, content),
                   IF ok THEN "ok:generate_response" ELSE "fail:generate_response")
    /\ last' = NoOutput
    /\ UNCHANGED << active_agents, calls >>

\* add_memory for the assistant turn returns or raises (the raise ends the
\* task); on success _send_message runs up to `await publish_data(...)`, or
\* returns with a warning when the agent is not connected
\* variant: _send_message without the connection check
CanPublishAlways(ag) == TRUE

CanPublish(ag) == ag.room # None /\ is_connected(ag)

AddAiReturns(t, ok) ==
    /\ t \in DOMAIN tasks /\ tasks[t].pc = "add_ai"
    /\ LET task == tasks[t]
           ag == agents[task.agent]
       IN  tasks' = SetTask(t,
              IF ~ok
              THEN Finished(Traced(task, "fail:add_memory:ai_response"), "error")
              ELSE IF CanPublish(ag)
              THEN Traced(Traced([ task EXCEPT !.pc = "publish",
                                                !.packet = message_data(task.response) ],
                                 "ok:add_memory:ai_response"),
                          "call:publish_data")
              ELSE Finished(Traced(task, "ok:add_memory:ai_response"), "not_connected"))
    /\ last' = NoOutput
    /\ UNCHANGED << active_agents, agents, calls >>

\* publish_data returns or raises; _send_message swallows the exception
PublishReturns(t, ok) ==
    /\ t \in DOMAIN tasks /\ tasks[t].pc = "publish"
    /\ tasks' = SetTask(t, IF ok THEN Finished(Traced(tasks[t], "ok:publish_data"), "sent")
                           ELSE Finished(Traced(tasks[t], "fail:publish_data"), "send_failed"))
    /\ last' = NoOutput
    /\ UNCHANGED << active_agents, agents, calls >>

\* ---------------------------------------------------------- specifications
\* The registry and the session lifecycle: every /agents request, the
\* provider's answers, and the connection events of every session.
Next ==
    \/ \E room \in RoomNames : StartRequest(room) /\ UNCHANGED svc
    \/ \E f \in Suspended, absent \in BOOLEAN : GetRoomFails(f, absent) /\ UNCHANGED svc
    \/ \E f \in Suspended : StartAgentEnter(f) /\ UNCHANGED svc
    \/ \E f \in Suspended : RoomConnects(f) /\ UNCHANGED svc
    \/ \E f \in Suspended : ConnectReturns(f) /\ UNCHANGED svc
    \/ \E f \in Suspended : ConnectFails(f) /\ UNCHANGED svc
    \/ \E f \in Suspended : StartCleanupReturns(f) /\ UNCHANGED svc
    \/ \E room \in RoomNames, via \in { "handler", "cleanup" } : StopRequest(room, via) /\ UNCHANGED svc
    \/ \E f \in Suspended : StopDisconnectReturns(f) /\ UNCHANGED svc
    \/ \E room \in RoomNames : StatusRequest(room) /\ UNCHANGED svc
    \/ \E a \in DOMAIN agents : EvConnected(a) /\ UNCHANGED svc
    \/ \E a \in DOMAIN agents : EvDisconnected(a) /\ UNCHANGED svc

Spec == Init /\ [][Next]_vars

\* The turn protocol inside one session: the session is started once, may
\* lose its connection or be stopped at any moment, and handles the data
\* packets delivered to it.
TurnNext ==
    \/ \E room \in RoomNames :
          ~BlankName(room) /\ agents = << >> /\ calls = EmptyBag /\ StartRequest(room) /\ UNCHANGED svc
    \/ \E f \in Suspended : StartAgentEnter(f) /\ UNCHANGED svc
    \/ \E f \in Suspended : RoomConnects(f) /\ UNCHANGED svc
    \/ \E f \in Suspended : ConnectReturns(f) /\ UNCHANGED svc
    \/ \E room \in RoomNames : StopRequest(room, "handler") /\ UNCHANGED svc
    \/ \E f \in Suspended : StopDisconnectReturns(f) /\ UNCHANGED svc
    \/ \E a \in DOMAIN agents : EvDisconnected(a) /\ UNCHANGED svc
    \/ \E a \in DOMAIN agents, sender \in Senders, payload \in Payloads :
          EvDataReceived(a, sender, payload) /\ UNCHANGED svc
    \/ \E t \in DOMAIN tasks : HandleMessageStart(t) /\ UNCHANGED svc
    \/ \E t \in DOMAIN tasks, ok \in BOOLEAN : AddUserReturns(t, ok) /\ UNCHANGED svc
    \/ \E t \in DOMAIN tasks, ok \in BOOLEAN, memories \in MemoryLists :
          SearchReturns(t, ok, memories) /\ UNCHANGED svc
    \/ \E t \in DOMAIN tasks, ok \in BOOLEAN : SummaryReturns(t, ok) /\ UNCHANGED svc
    \/ \E t \in DOMAIN tasks, ok \in BOOLEAN, content \in LlmContents :
          LlmReturns(t, ok, content) /\ UNCHANGED svc
    \/ \E t \in DOMAIN tasks, ok \in BOOLEAN : AddAiReturns(t, ok) /\ UNCHANGED svc
    \/ \E t \in DOMAIN tasks, ok \in BOOLEAN : PublishReturns(t, ok) /\ UNCHANGED svc

TurnSpec == Init /\ [][TurnNext]_vars

\* ------------------------------------ the agent against the memory service
\* The requests MemoryClient sends (method, path under MEMORY_SERVICE_URL,
\* the keys of the JSON body or of the query string).
Request(method, path, fields) == [ method |-> method, path |-> path, fields |-> fields ]
AddMemoryRequest == Request("POST", "/api/v1/memory/add", { "user_id", "message", "metadata" })
SearchMemoriesRequest == Request("POST", "/api/v1/memory/search", { "user_id", "query", "limit" })
GetMemoriesRequest == Request("GET", "/api/v1/memory/get", { "user_id", "limit" })

\* The routes the memory service registers (router prefix /api/v1) with the
\* fields its request models require.
Route(method, path, required) == [ method |-> method, path |-> path, required |-> required ]
MemoryRoutes ==
    { Route("POST", "/api/v1/memories", { "username", "message" }),
      Route("POST", "/api/v1/memories/search", { "username", "query" }),
      Route("GET", "/api/v1/memories/{username}", { }),
      Route("DELETE", "/api/v1/memories/{username}", { }),
      Route("GET", "/api/v1/health", { }) }

\* A request is served when a route has its method and path (none of the
\* client's paths has a path parameter) and the body carries the required
\* fields; otherwise the service answers 404 / 422 and raise_for_status raises.
Served(req) ==
    \E r \in MemoryRoutes :
        r.method = req.method /\ r.path = req.path /\ r.required \subseteq req.fields

\* One step of a turn with every dependency healthy: the memory service is
\* the one of this repository and answers what its routes allow, the
\* language model answers with content, the provider accepts the publish.
DeployedTurnStep(t) ==
    /\ t \in DOMAIN tasks
    /\ CASE tasks[t].pc = "spawned" -> HandleMessageStart(t)
         [] tasks[t].pc = "add_user" -> AddUserReturns(t, Served(AddMemoryRequest))
         [] tasks[t].pc = "search" ->
               IF Served(SearchMemoriesRequest)
               THEN \E memories \in MemoryLists : SearchReturns(t, TRUE, memories)
               ELSE SearchReturns(t, FALSE, << >>)
         [] tasks[t].pc = "summary" -> SummaryReturns(t, TRUE)
         [] tasks[t].pc = "llm" ->
               \E content \in LlmContents \ { << >> } : LlmReturns(t, TRUE, content)
         [] tasks[t].pc = "add_ai" -> AddAiReturns(t, Served(AddMemoryRequest))
         [] tasks[t].pc = "publish" -> PublishReturns(t, TRUE)
         [] OTHER -> FALSE

\* A session of the deployed system: started once, possibly stopped or
\* disconnected, receiving data packets.
DeployedNext ==
    \/ \E room \in RoomNames :
          ~BlankName(room) /\ agents = << >> /\ calls = EmptyBag /\ StartRequest(room) /\ UNCHANGED svc
    \/ \E f \in Suspended : StartAgentEnter(f) /\ UNCHANGED svc
    \/ \E f \in Suspended : RoomConnects(f) /\ UNCHANGED svc
    \/ \E f \in Suspended : ConnectReturns(f) /\ UNCHANGED svc
    \/ \E room \in RoomNames : StopRequest(room, "handler") /\ UNCHANGED svc
    \/ \E f \in Suspended : StopDisconnectReturns(f) /\ UNCHANGED svc
    \/ \E room \in RoomNames : StatusRequest(room) /\ UNCHANGED svc
    \/ \E a \in DOMAIN agents : EvConnected(a) /\ UNCHANGED svc
    \/ \E a \in DOMAIN agents : EvDisconnected(a) /\ UNCHANGED svc
    \/ \E a \in DOMAIN agents, sender \in Senders, payload \in Payloads :
          EvDataReceived(a, sender, payload) /\ UNCHANGED svc
    \/ \E t \in DOMAIN tasks : DeployedTurnStep(t) /\ UNCHANGED svc

DeployedSpec == Init /\ [][DeployedNext]_vars

\* ------------------------------------------ memory service: POST /memories/search
\* MemoryRetrieveRequest: limit has ge = LimitMin, le = LimitMax, default LimitDefault
LimitMin == 1
LimitMax == 20
LimitDefault == 5
\* an optional value: a key that is missing (or null), or a key with a value
Absent == << >>
Some(v) == << v >>
ValueOf(opt) == opt[1]

\* request bodies tried: texts that are empty, blank, plain or padded
SearchUsernames == { << >>, << WS >>, << "u" >>, << WS, "u" >> }
SearchQueries == { << >>, << WS >>, << "q" >> }
LimitsTried == { Some(n) : n \in (LimitMin - 2)..(LimitMax + 2) } \cup { Absent }

NoResponse == [ code |-> 0 ]
SearchReceived(username, query, limit) ==
    [ op |-> "search", username |-> username, query |-> query, limit |-> limit,
      pc |-> "received", adapter |-> << >>, response |-> NoResponse ]

\* Field(min_length=1) and the field_validator: `not v or not v.strip()`
ValidText(v) == Len(v) >= 1 /\ Strip(v) # << >>

\* variant: a request model whose limit carries no ge / le constraint
ValidRetrieveRequestAnyLimit(req) == ValidText(req.username) /\ ValidText(req.query)

\* FastAPI builds MemoryRetrieveRequest from the body; a failure is answered
\* 422 by validation_exception_handler and the route function does not run
ValidRetrieveRequest(req) ==
    /\ ValidText(req.username)
    /\ ValidText(req.query)
    /\ req.limit # Absent =>
          (ValueOf(req.limit) >= LimitMin /\ ValueOf(req.limit) <= LimitMax)

\* the validated model: texts stripped by the validators, limit defaulted
ParsedRetrieveRequest(req) ==
    [ username |-> Strip(req.username), query |-> Strip(req.query),
      limit |-> IF req.limit = Absent THEN LimitDefault ELSE ValueOf(req.limit) ]

\* the checks at the head of MemoryService.retrieve_memories (ValueError)
retrieve_checks_pass(r) ==
    /\ Strip(r.username) # << >>
    /\ Strip(r.query) # << >>
    /\ ~(r.limit < 1 \/ r.limit > 20)

\* mem0_client.search(query=..., user_id=..., limit=...)
Mem0Search(r) ==
    [ fn |-> "search", query |-> Strip(r.query), user_id |-> Strip(r.username),
      limit |-> r.limit ]

\* A provider record: the values of its text / content / memory keys (Absent
\* when the key is missing or null, else a string) and its metadata key
\* ("absent", "null" or "dict").
ProviderRecord(text, content, memory, metadata) ==
    [ text |-> text, content |-> content, memory |-> memory, metadata |-> metadata ]
TextValues == { Absent, Some(<< >>), Some(<< "t" >>) }
ProviderRecords ==
    { ProviderRecord(t, c, m, md) :
        t \in TextValues, c \in { Absent, Some(<< "c" >>) },
        m \in { Absent, Some(<< >>), Some(<< "m" >>) },
        md \in { "absent", "null", "dict" } }

\* Python truthiness of such a value
TruthyText(v) == v # Absent /\ ValueOf(v) # << >>

\* memory_data.get("text") or memory_data.get("content") or memory_data.get("memory", "")
memory_text_of(rec) ==
    IF TruthyText(rec.text) THEN rec.text
    ELSE IF TruthyText(rec.content) THEN rec.content
    ELSE IF rec.memory = Absent THEN Some(<< >>) ELSE rec.memory

\* Memory(id=..., text=..., score=..., metadata=memory_data.get("metadata", {})):
\* metadata is declared Dict[str, Any], so a null metadata is a validation
\* error, caught by the loop's `except Exception: continue`
MemoryConstructs(rec) == rec.metadata # "null"

FormattedMemory(rec) == [ text |-> ValueOf(memory_text_of(rec)) ]

\* MemoryService._format_memories
RECURSIVE _format_memories(_)
_format_memories(results) ==
    IF results = << >> THEN << >>
    ELSE LET rec == Head(results)
             rest == _format_memories(Tail(results))
         IN  IF ~TruthyText(memory_text_of(rec)) THEN rest
             ELSE IF ~MemoryConstructs(rec) THEN rest
             ELSE << FormattedMemory(rec) >> \o rest

SearchResponse(code, memories) == [ code |-> code, memories |-> memories, count |-> Len(memories) ]

\* what the provider answers in the search runs
SampleResults ==
    { << >>,
      << ProviderRecord(Some(<< "t" >>), Absent, Absent, "dict") >>,
      << ProviderRecord(Absent, Absent, Some(<< >>), "dict"),
         ProviderRecord(Absent, Absent, Some(<< "m" >>), "absent") >> }

\* POST /api/v1/memories/search, one run: request validation, the route
\* function, retrieve_memories with its synchronous mem0_client.search call,
\* _format_memories and the response.  An error branch of the route function
\* executes `return JSONResponse(...)` with JSONResponse not imported in
\* memory.py: the NameError reaches global_exception_handler, which answers 500.
SearchMemories(raised, results) ==
    /\ svc.op = "search" /\ svc.pc = "received"
    /\ IF ~ValidRetrieveRequest(svc)
       THEN svc' = [ svc EXCEPT !.pc = "done", !.response = SearchResponse(422, << >>) ]
       ELSE LET r == ParsedRetrieveRequest(svc)
            IN  IF ~retrieve_checks_pass(r)
                THEN svc' = [ svc EXCEPT !.pc = "done", !.response = SearchResponse(500, << >>) ]
                ELSE IF raised
                THEN svc' = [ svc EXCEPT !.pc = "done", !.adapter = << Mem0Search(r) >>,
                                         !.response = SearchResponse(500, << >>) ]
                ELSE svc' = [ svc EXCEPT !.pc = "done", !.adapter = << Mem0Search(r) >>,
                                         !.response = SearchResponse(200, _format_memories(results)) ]
    /\ UNCHANGED << active_agents, agents, calls, tasks, last >>

IdleService ==
    /\ active_agents = << >>
    /\ agents = << >>
    /\ calls = EmptyBag
    /\ tasks = << >>
    /\ last = NoOutput

SearchInit ==
    /\ IdleService
    /\ svc \in { SearchReceived(u, q, l) :
                   u \in SearchUsernames, q \in SearchQueries, l \in LimitsTried }

SearchNext == \E raised \in BOOLEAN, results \in SampleResults : SearchMemories(raised, results)

SearchSpec == SearchInit /\ [][SearchNext]_vars

\* ---------------------------------------- memory service: _format_memories
MaxRecords == 2     \* provider records in one result list

RECURSIVE ResultLists(_)
ResultLists(n) ==
    IF n = 0 THEN { << >> }
    ELSE LET shorter == ResultLists(n - 1)
         IN  shorter \cup { Append(l, rec) : l \in { x \in shorter : Len(x) = n - 1 },
                                             rec \in ProviderRecords }

FormatCalled(results) ==
    [ op |-> "format", results |-> results, pc |-> "called", response |-> NoResponse ]

\* retrieve_memories from the return of mem0_client.search: _format_memories,
\* then MemorySearchResponse(memories = memories, count = len(memories))
FormatResults ==
    /\ svc.op = "format" /\ svc.pc = "called"
    /\ svc' = [ svc EXCEPT !.pc = "done",
                           !.response = SearchResponse(200, _format_memories(svc.results)) ]
    /\ UNCHANGED << active_agents, agents, calls, tasks, last >>

FormatInit ==
    /\ IdleService
    /\ svc \in { FormatCalled(results) : results \in ResultLists(MaxRecords) }

FormatNext == FormatResults

FormatSpec == FormatInit /\ [][FormatNext]_vars

\* -------------------------------------- chat-agent service: POST /rooms/create
MAX_ROOM_NAME_LENGTH == 100
MIN_ROOM_NAME_LENGTH == 1
MAX_PARTICIPANTS == 1000
MIN_PARTICIPANTS == 1
MAX_EMPTY_TIMEOUT == 86400
MIN_EMPTY_TIMEOUT == 10
MAX_METADATA_SIZE == 1024

MaxRuns == 3        \* runs of one character in a room name

\* A room name is written as runs of one character: << Run("a", 100) >> is
\* "a" * 100 and << Run("a", 1), Run(TAB, 1), Run("b", 1) >> is "a\tb".
Run(ch, n) == [ ch |-> ch, n |-> n ]
TAB == "\t"
NameChars == { "a", "7", "_", "-", WS, TAB, "!" }
RunLengths == { MIN_ROOM_NAME_LENGTH, MAX_ROOM_NAME_LENGTH }
NameRuns == { Run(ch, n) : ch \in NameChars, n \in RunLengths }

RECURSIVE NamesOf(_)
NamesOf(n) ==
    IF n = 0 THEN { << >> }
    ELSE LET shorter == NamesOf(n - 1)
         IN  shorter \cup { Append(l, r) : l \in { x \in shorter : Len(x) = n - 1 },
                                           r \in NameRuns }

\* the characters str.strip() removes and the regular expression's \s matches
IsSpace(ch) == ch \in { WS, TAB }

RECURSIVE LStripName(_)
LStripName(s) == IF s # << >> /\ IsSpace(Head(s).ch) THEN LStripName(Tail(s)) ELSE s

RECURSIVE RStripName(_)
RStripName(s) ==
    IF s # << >> /\ IsSpace(s[Len(s)].ch) THEN RStripName(SubSeq(s, 1, Len(s) - 1)) ELSE s

\* room_name.strip()
StripName(s) == RStripName(LStripName(s))

RECURSIVE NameLen(_)
NameLen(s) == IF s = << >> THEN 0 ELSE Head(s).n + NameLen(Tail(s))

\* re.match(r'^[a-zA-Z0-9\-_\s]+$', room_name)
NameMatches(s) ==
    /\ s # << >>
    /\ \A i \in 1..Len(s) : s[i].ch \in { "a", "7", "-", "_" } \/ IsSpace(s[i].ch)

validate_room_name(room_name) ==
    IF room_name = << >> THEN FALSE
    ELSE LET stripped == StripName(room_name)
         IN  IF NameLen(stripped) < MIN_ROOM_NAME_LENGTH THEN FALSE
             ELSE IF NameLen(stripped) > MAX_ROOM_NAME_LENGTH THEN FALSE
             ELSE IF ~NameMatches(stripped) THEN FALSE
             ELSE TRUE

\* Optional[int]: None is not an int
validate_participants_count(count) ==
    IF count = Absent THEN FALSE
    ELSE IF ValueOf(count) < MIN_PARTICIPANTS THEN FALSE
    ELSE IF ValueOf(count) > MAX_PARTICIPANTS THEN FALSE
    ELSE TRUE

validate_empty_timeout(timeout) ==
    IF timeout = Absent THEN FALSE
    ELSE IF ValueOf(timeout) < MIN_EMPTY_TIMEOUT THEN FALSE
    ELSE IF ValueOf(timeout) > MAX_EMPTY_TIMEOUT THEN FALSE
    ELSE TRUE

\* metadata is None or a dict, given by len(str(metadata))
validate_metadata(metadata) ==
    IF metadata = Absent THEN TRUE
    ELSE IF ValueOf(metadata) > MAX_METADATA_SIZE THEN FALSE
    ELSE TRUE

ParticipantsTried ==
    { Absent, Some(MIN_PARTICIPANTS - 1), Some(MIN_PARTICIPANTS),
      Some(MAX_PARTICIPANTS), Some(MAX_PARTICIPANTS + 1) }
TimeoutsTried ==
    { Absent, Some(MIN_EMPTY_TIMEOUT - 1), Some(MIN_EMPTY_TIMEOUT),
      Some(MAX_EMPTY_TIMEOUT), Some(MAX_EMPTY_TIMEOUT + 1) }
MetadataTried == { Absent, Some(MAX_METADATA_SIZE), Some(MAX_METADATA_SIZE + 1) }

CreateReceived(room_name, max_participants, empty_timeout, metadata) ==
    [ op |-> "create_room", room_name |-> room_name,
      max_participants |-> max_participants, empty_timeout |-> empty_timeout,
      metadata |-> metadata, pc |-> "received", adapter |-> << >>,
      response |-> NoResponse ]

CreateResponse(code, error_code) == [ code |-> code, error_code |-> error_code ]

CreateAnswers(code, error_code) ==
    [ svc EXCEPT !.pc = "done", !.response = CreateResponse(code, error_code) ]

ProviderCall(fn) == [ fn |-> fn, room_name |-> StripName(svc.room_name) ]

\* create_room up to `await livekit_client.get_room(clean_room_name)`
CreateRoomEnter ==
    /\ svc.op = "create_room" /\ svc.pc = "received"
    /\ svc' = IF ~validate_room_name(svc.room_name)
                  THEN CreateAnswers(400, "INVALID_ROOM_NAME")
              ELSE IF ~validate_participants_count(svc.max_participants)
                  THEN CreateAnswers(400, "INVALID_MAX_PARTICIPANTS")
              ELSE IF ~validate_empty_timeout(svc.empty_timeout)
                  THEN CreateAnswers(400, "INVALID_EMPTY_TIMEOUT")
              ELSE IF ~validate_metadata(svc.metadata)
                  THEN CreateAnswers(400, "INVALID_METADATA")
              ELSE [ svc EXCEPT !.pc = "get_room",
                                !.adapter = Append(@, ProviderCall("get_room")) ]
    /\ UNCHANGED << active_agents, agents, calls, tasks, last >>

\* get_room returns a room, raises ValueError (no such room) or raises
\* something else; on ValueError the handler goes on to
\* `await livekit_client.create_room(...)`
CreateGetRoomReturns(outcome) ==
    /\ svc.op = "create_room" /\ svc.pc = "get_room"
    /\ svc' = CASE outcome = "room" -> CreateAnswers(409, "ROOM_EXISTS")
                [] outcome = "ValueError" ->
                       [ svc EXCEPT !.pc = "create_room",
                                    !.adapter = Append(@, ProviderCall("create_room")) ]
                [] OTHER -> CreateAnswers(500, "ROOM_CHECK_FAILED")
    /\ UNCHANGED << active_agents, agents, calls, tasks, last >>

CreateRoomReturns(ok) ==
    /\ svc.op = "create_room" /\ svc.pc = "create_room"
    /\ svc' = IF ok THEN CreateAnswers(200, "")
              ELSE CreateAnswers(500, "ROOM_CREATION_FAILED")
    /\ UNCHANGED << active_agents, agents, calls, tasks, last >>

RoomsInit ==
    /\ IdleService
    /\ svc \in { CreateReceived(name, mp, et, md) :
                   name \in NamesOf(MaxRuns), mp \in ParticipantsTried,
                   et \in TimeoutsTried, md \in MetadataTried }

RoomsNext ==
    \/ CreateRoomEnter
    \/ \E outcome \in { "room", "ValueError", "Exception" } : CreateGetRoomReturns(outcome)
    \/ \E ok \in BOOLEAN : CreateRoomReturns(ok)

RoomsSpec == RoomsInit /\ [][RoomsNext]_vars

\* ------------------------------------ concurrent turns of the same sender
MaxTurns == 2       \* messages of one sender delivered to a connected session

\* a session as start_agent leaves it once the connected event was delivered
ConnectedAgent(room, a) ==
    [ NewAgent(room) EXCEPT !.room = "Room", !.conn = "connected",
                            !.participant_id = Sid(a), !.running = TRUE ]

RaceInit ==
    /\ active_agents = (<< "r" >> :> 1)
    /\ agents = << ConnectedAgent(<< "r" >>, 1) >>
    /\ calls = EmptyBag
    /\ tasks = << >>
    /\ last = NoOutput
    /\ svc = NoRequest

\* the messages differ in their text: "a", "b", "a", ...
RacePayload(n) == WithMessage(IF n % 2 = 1 THEN << "a" >> ELSE << "b" >>)

\* variant: a scheduler that may run a new task before the ones created earlier
AnyTaskRuns(t) == TRUE

\* asyncio runs the tasks made by create_task in the order of their creation:
\* a task takes its first step only after the tasks created before it
FirstToRun(t) == \A u \in 1..(t - 1) : tasks[u].pc # "spawned"

\* The session stays connected; every message comes from the same sender and
\* each is handled by its own task.
RaceNext ==
    \/ /\ Len(tasks) < MaxTurns
       /\ DataReceived(1, "alice", RacePayload(Len(tasks) + 1)) /\ UNCHANGED svc
    \/ \E t \in DOMAIN tasks : FirstToRun(t) /\ HandleMessageStart(t) /\ UNCHANGED svc
    \/ \E t \in DOMAIN tasks, ok \in BOOLEAN : AddUserReturns(t, ok) /\ UNCHANGED svc
    \/ \E t \in DOMAIN tasks, ok \in BOOLEAN, memories \in MemoryLists :
          SearchReturns(t, ok, memories) /\ UNCHANGED svc
    \/ \E t \in DOMAIN tasks, ok \in BOOLEAN : SummaryReturns(t, ok) /\ UNCHANGED svc
    \/ \E t \in DOMAIN tasks, ok \in BOOLEAN, content \in LlmContents :
          LlmReturns(t, ok, content) /\ UNCHANGED svc
    \/ \E t \in DOMAIN tasks, ok \in BOOLEAN : AddAiReturns(t, ok) /\ UNCHANGED svc
    \/ \E t \in DOMAIN tasks, ok \in BOOLEAN : PublishReturns(t, ok) /\ UNCHANGED svc

RaceSpec == RaceInit /\ [][RaceNext]_vars

\* --------------------------------------------- many turns, one at a time
MaxHistory == 6     \* a message is delivered while the history has at most this many turns

\* on_data_received when the tasks created before have ended: create_task's
\* result is not kept, so nothing of a finished task remains
DataReceivedNext(a, sender, payload) ==
    /\ a \in DOMAIN agents /\ agents[a].conn = "connected"
    /\ \A t \in DOMAIN tasks : tasks[t].pc = "done"
    /\ tasks' = << NewTask(a, sender, payload) >>
    /\ last' = NoOutput
    /\ UNCHANGED << active_agents, agents, calls >>

\* The session stays connected and one sender writes again and again, each
\* message after the turn of the one before has ended.
HistoryNext ==
    \/ /\ Len(history_of(agents[1], "alice")) <= MaxHistory
       /\ DataReceivedNext(1, "alice", WithMessage(<< "a" >>)) /\ UNCHANGED svc
    \/ \E t \in DOMAIN tasks : HandleMessageStart(t) /\ UNCHANGED svc
    \/ \E t \in DOMAIN tasks, ok \in BOOLEAN : AddUserReturns(t, ok) /\ UNCHANGED svc
    \/ \E t \in DOMAIN tasks, ok \in BOOLEAN, memories \in MemoryLists :
          SearchReturns(t, ok, memories) /\ UNCHANGED svc
    \/ \E t \in DOMAIN tasks, ok \in BOOLEAN : SummaryReturns(t, ok) /\ UNCHANGED svc
    \/ \E t \in DOMAIN tasks, ok \in BOOLEAN, content \in LlmContents :
          LlmReturns(t, ok, content) /\ UNCHANGED svc
    \/ \E t \in DOMAIN tasks, ok \in BOOLEAN : AddAiReturns(t, ok) /\ UNCHANGED svc
    \/ \E t \in DOMAIN tasks, ok \in BOOLEAN : PublishReturns(t, ok) /\ UNCHANGED svc

HistorySpec == RaceInit /\ [][HistoryNext]_vars

\* ------------------------------------------------- the greeting of a joiner
\* the greeting built without the language model, and the one of the except branch
WELCOME_GREETING == << "w", "e", "l", "c", "o", "m", "e" >>
FALLBACK_GREETING == << "h", "e", "l", "l", "o" >>

NewGreeting(a, username) ==
    [ kind |-> "greeting", agent |-> a, username |-> username, pc |-> "spawned",
      sending |-> << >>, sends |-> 0, trace |-> << >>, result |-> "pending" ]

\* on_participant_connected: asyncio.create_task(self._send_greeting(identity))
EvParticipantConnected(a, username) ==
    /\ a \in DOMAIN agents /\ agents[a].conn = "connected"
    /\ Len(tasks) < MaxMsgs
    /\ tasks' = Append(tasks, NewGreeting(a, username))
    /\ last' = NoOutput
    /\ UNCHANGED << active_agents, agents, calls >>

\* _send_greeting from its first line to `await get_memories(username, limit=3)`
GreetingStart(t) ==
    /\ t \in DOMAIN tasks /\ tasks[t].pc = "spawned"
    /\ tasks' = SetTask(t, Traced([ tasks[t] EXCEPT !.pc = "get_memories" ], "call:get_memories"))
    /\ last' = NoOutput
    /\ UNCHANGED << active_agents, agents, calls >>

\* the coroutine ends: _send_message returned, which ends _send_greeting
GreetingReturned(task) == [ task EXCEPT !.pc = "done", !.result = "returned" ]

\* variant: a greeting failure that leaves _send_greeting as an exception
GreetingFailureEscapes(task, ag) == [ task EXCEPT !.pc = "done", !.result = "raised" ]

\* `await self._send_message(text)`: up to `await publish_data(...)` when the
\* agent is connected, otherwise a warning and return
GreetingSends(task, text, ag) ==
    LET sent == [ task EXCEPT !.sending = text, !.sends = @ + 1 ]
    IN  IF CanPublish(ag)
        THEN Traced([ sent EXCEPT !.pc = "publish" ], "call:publish_data")
        ELSE GreetingReturned(sent)

\* the except branch of _send_greeting
GreetingFailed(task, ag) == GreetingSends(task, FALLBACK_GREETING, ag)

\* _send_greeting after the memories are known: without memories the fixed
\* welcome; with memories generate_context_summary (a completion request
\* only when some memory carries a text), then generate_response
GetMemoriesReturns(t, ok, memories) ==
    /\ t \in DOMAIN tasks /\ tasks[t].pc = "get_memories"
    /\ LET task == tasks[t]
           ag == agents[task.agent]
       IN  tasks' = SetTask(t,
              IF ~ok THEN GreetingFailed(Traced(task, "fail:get_memories"), ag)
              ELSE IF memories = << >>
              THEN GreetingSends(Traced(task, "ok:get_memories"), WELCOME_GREETING, ag)
              ELSE IF memory_texts(memories) = << >>
              THEN Traced(Traced([ task EXCEPT !.pc = "llm" ], "ok:get_memories"),
                          "call:generate_response")
              ELSE Traced(Traced([ task EXCEPT !.pc = "summary" ], "ok:get_memories"),
                          "call:generate_context_summary"))
    /\ last' = NoOutput
    /\ UNCHANGED << active_agents, agents, calls >>

\* the summarisation call returns a summary, or fails and yields ""
GreetSummaryReturns(t, ok) ==
    /\ t \in DOMAIN tasks /\ tasks[t].pc = "summary"
    /\ tasks' = SetTask(t, Traced(Traced([ tasks[t] EXCEPT !.pc = "llm" ],
                                         IF ok THEN "ok:generate_context_summary"
                                         ELSE "fail:generate_context_summary"),
                                  "call:generate_response"))
    /\ last' = NoOutput
    /\ UNCHANGED << active_agents, agents, calls >>

\* the completion call returns the greeting or raises
GreetLlmReturns(t, ok, content) ==
    /\ t \in DOMAIN tasks /\ tasks[t].pc = "llm"
    /\ LET task == tasks[t]
           ag == agents[task.agent]
       IN  tasks' = SetTask(t,
              IF ok THEN GreetingSends(Traced(task, "ok:generate_response"), content, ag)
              ELSE GreetingFailed(Traced(task, "fail:generate_response"), ag))
    /\ last' = NoOutput
    /\ UNCHANGED << active_agents, agents, calls >>

\* publish_data returns or raises; _send_message swallows the exception
GreetPublishReturns(t, ok) ==
    /\ t \in DOMAIN tasks /\ tasks[t].pc = "publish"
    /\ tasks' = SetTask(t, GreetingReturned(Traced(tasks[t],
                              IF ok THEN "ok:publish_data" ELSE "fail:publish_data")))
    /\ last' = NoOutput
    /\ UNCHANGED << active_agents, agents, calls >>

\* One session, started once, that may lose its connection at any moment,
\* and the participants joining its room.
GreetNext ==
    \/ \E room \in RoomNames :
          ~BlankName(room) /\ agents = << >> /\ calls = EmptyBag /\ StartRequest(room) /\ UNCHANGED svc
    \/ \E f \in Suspended : StartAgentEnter(f) /\ UNCHANGED svc
    \/ \E f \in Suspended : RoomConnects(f) /\ UNCHANGED svc
    \/ \E f \in Suspended : ConnectReturns(f) /\ UNCHANGED svc
    \/ \E a \in DOMAIN agents : EvDisconnected(a) /\ UNCHANGED svc
    \/ \E a \in DOMAIN agents, username \in HumanUsers :
          EvParticipantConnected(a, username) /\ UNCHANGED svc
    \/ \E t \in DOMAIN tasks : GreetingStart(t) /\ UNCHANGED svc
    \/ \E t \in DOMAIN tasks, ok \in BOOLEAN, memories \in MemoryLists :
          GetMemoriesReturns(t, ok, memories) /\ UNCHANGED svc
    \/ \E t \in DOMAIN tasks, ok \in BOOLEAN : GreetSummaryReturns(t, ok) /\ UNCHANGED svc
    \/ \E t \in DOMAIN tasks, ok \in BOOLEAN, content \in LlmContents :
          GreetLlmReturns(t, ok, content) /\ UNCHANGED svc
    \/ \E t \in DOMAIN tasks, ok \in BOOLEAN : GreetPublishReturns(t, ok) /\ UNCHANGED svc

GreetSpec == Init /\ [][GreetNext]_vars

\* ------------------------------------------------------------------ claims
\* the sessions of a room that hold a connected rtc.Room
LiveSessions(room) ==
    { a \in DOMAIN agents : /\ agents[a].room_name = room
                            /\ agents[a].room # None
                            /\ agents[a].conn = "connected" }

\* C1: for every room, under every interleaving of start_agent calls, at most
\* one ChatAgent session is connected and live at a time, and a registered
\* session is never replaced by a second one.
C1_AtMostOneSessionPerRoom ==
    \A room \in RoomNames : Cardinality(LiveSessions(room)) <= 1

\* C2: start_agent on a room that already has a registered session returns
\* "already_active" with that session's participant id, constructs no
\* ChatAgent, starts no connect, and leaves active_agents unchanged.
C2_StartOnActiveRoom ==
    [][ \A f \in Suspended :
          (StartAgentEnter(f) /\ Registered(f.room)) =>
             /\ last' = StartReturned(f.room, "already_active",
                                      agents[active_agents[f.room]].participant_id)
             /\ ~last'.raised /\ last'.status = "already_active"
             /\ agents' = agents
             /\ calls' = Resume(f)
             /\ active_agents' = active_agents ]_vars

C2_Witness ==
    /\ last.op = "start" /\ last.status = "already_active"
    /\ Registered(last.room)
    /\ last.participant_id = agents[active_agents[last.room]].participant_id
    /\ last.participant_id # None

\* C3: stop on a room (a non-blank name) without a registered session, by
\* AgentManager.stop_agent or through POST /agents/stop, reports success,
\* raises nothing, and leaves the registry, every session and every suspended
\* coroutine as they were.
C3_StopOnInactiveRoom ==
    [][ \A room \in RoomNames, via \in { "handler", "cleanup" } :
          (StopRequest(room, via) /\ ~Registered(room) /\ ~BlankName(room)) =>
             /\ last'.op = "stop" /\ last'.room = room
             /\ ~last'.raised
             /\ via = "handler" => last'.code = 200
             /\ via = "cleanup" => last'.entered = "stop_agent"
             /\ UNCHANGED << active_agents, agents, calls, tasks >> ]_vars

C3_Witness ==
    /\ last = StopAnswered(<< "r" >>, 200)
    /\ ~Registered(<< "r" >>)
    /\ Len(agents) > 0

\* C4: get_agent_status for a room without a registered session returns
\* active = false, participant_id = null, connected = false and no error;
\* in every state a status call changes neither the registry nor a session.
C4_StatusOfInactiveRoom ==
    [][ \A room \in RoomNames :
          StatusRequest(room) =>
             /\ UNCHANGED << active_agents, agents, calls, tasks >>
             /\ (~Registered(room) /\ ~BlankName(room)) =>
                   /\ last'.entered = "get_agent_status" /\ ~last'.raised
                   /\ last'.code = 200
                   /\ last'.active = FALSE
                   /\ last'.participant_id = None
                   /\ last'.connected = FALSE ]_vars

C4_Witness ==
    /\ last.op = "status" /\ last.entered = "get_agent_status"
    /\ ~last.active /\ ~Registered(last.room)
    /\ \E a \in DOMAIN agents : agents[a].room_name = last.room

\* C5: when token generation or connect fails in start_agent(room), the error
\* reaches the caller, active_agents has no entry for the room afterwards,
\* and the discarded ChatAgent is idle (room = None, participant_id = None,
\* _running = false).
StartFailureStep(f) ==
    \/ StartCleanupReturns(f)
    \/ StartAgentEnter(f) /\ last'.raised

C5_FailedStartLeavesNoEntry ==
    [][ \A f \in Suspended :
          StartFailureStep(f) =>
             /\ last' = StartRaised(f.room)
             /\ ~Registered(f.room)'
             /\ LET ag == agents'[IF f.agent = 0 THEN Len(agents') ELSE f.agent]
                IN  ag.room = None /\ ag.participant_id = None /\ ~ag.running ]_vars

\* ------------------------------------------------- claims on the turn protocol
Events(task) == { task.trace[i] : i \in 1..Len(task.trace) }
Turns(ag, username) ==
    { history_of(ag, username)[i] : i \in 1..Len(history_of(ag, username)) }

\* this step is a step of task t
StepOf(t) == t \in DOMAIN tasks /\ tasks'[t] # tasks[t]

\* task t is dropped: its step changes no session and calls nothing
Dropped(t) ==
    /\ agents' = agents
    /\ tasks'[t].trace = << >>
    /\ tasks'[t].pc = "done"

\* C6: a data message whose sender is the agent's own identity never changes
\* conversation_history and never leads to a memory-store, language-model or
\* publish call.
C6_OwnMessagesIgnored ==
    [][ /\ \A t \in DOMAIN tasks :
              (tasks[t].sender = agent_username /\ StepOf(t)) => Dropped(t)
        /\ \A t \in DOMAIN tasks' :
              tasks'[t].sender = agent_username => tasks'[t].trace = << >>
        /\ \A a \in DOMAIN agents' :
              agent_username \notin DOMAIN agents'[a].conversation_history ]_vars

C6_Witness ==
    \E t \in DOMAIN tasks :
        /\ tasks[t].sender = agent_username
        /\ tasks[t].payload = WithMessage(<< WS, "h", "i" >>)
        /\ tasks[t].outcome = "ignored_self"
        /\ is_connected(agents[tasks[t].agent])

\* C7: a data message whose text is empty after trimming, or absent, runs no
\* turn protocol: conversation_history is unchanged and no memory-store,
\* language-model or publish call is made.
AllWhitespace(s) == \A i \in 1..Len(s) : s[i] = WS
BlankPayload(payload) ==
    payload.valid /\ (payload.has_message => AllWhitespace(payload.message))

C7_EmptyMessagesIgnored ==
    [][ /\ \A t \in DOMAIN tasks :
              (BlankPayload(tasks[t].payload) /\ StepOf(t)) => Dropped(t)
        /\ \A t \in DOMAIN tasks' :
              BlankPayload(tasks'[t].payload) => tasks'[t].trace = << >> ]_vars

C7_Witness ==
    \E t \in DOMAIN tasks :
        /\ tasks[t].sender \in HumanUsers
        /\ tasks[t].payload = WithMessage(<< WS, WS >>)
        /\ tasks[t].outcome = "ignored_empty"
        /\ is_connected(agents[tasks[t].agent])

\* C8: in every turn the memory search, the completion request and the
\* publish happen only after the user turn's add_memory has succeeded; when
\* that write fails, no completion is requested, no assistant turn is
\* appended or persisted, and nothing is published for the message.
After(task, first, evs) ==
    \A j \in 1..Len(task.trace) :
        task.trace[j] \in evs => \E i \in 1..(j - 1) : task.trace[i] = first

UserWriteOk == "ok:add_memory:user_message"
UserWriteFail == "fail:add_memory:user_message"
LaterCalls ==
    { "call:search_memories", "call:generate_context_summary", "call:generate_response",
      "call:add_memory:ai_response", "call:publish_data" }

AssistantTurns(ag, username) == { x \in Turns(ag, username) : x.role = "assistant" }

C8_PersistBeforeReply ==
    [][ /\ \A t \in DOMAIN tasks' :
              (t \in DOMAIN tasks => tasks'[t] # tasks[t]) =>
                 /\ After(tasks'[t], UserWriteOk, LaterCalls)
                 /\ UserWriteFail \in Events(tasks'[t]) =>
                       /\ tasks'[t].pc = "done"
                       /\ Events(tasks'[t]) \cap LaterCalls = { }
                       /\ ~(UserWriteOk \in Events(tasks'[t]))
        \* the step on which the write fails appends nothing, and it is the task's last
        /\ \A t \in DOMAIN tasks :
              /\ (StepOf(t) /\ UserWriteFail \in Events(tasks'[t])) => agents' = agents
              /\ UserWriteFail \in Events(tasks[t]) => tasks'[t] = tasks[t]
        \* an assistant turn is appended only by a task whose user turn is stored
        /\ \A a \in DOMAIN agents, u \in Senders :
              (agents'[a] # agents[a]
                 /\ AssistantTurns(agents'[a], u) # AssistantTurns(agents[a], u)) =>
                 \E t \in DOMAIN tasks :
                    StepOf(t) /\ tasks[t].agent = a /\ UserWriteOk \in Events(tasks[t]) ]_vars

C8_Witness ==
    \E t \in DOMAIN tasks :
        /\ tasks[t].trace = << "call:add_memory:user_message", UserWriteFail >>
        /\ tasks[t].outcome = "error"
        /\ history_of(agents[tasks[t].agent], tasks[t].sender)
              = << Turn("user", << "h", "i" >>) >>

\* C9 (as stated): when the memory search or the completion request fails,
\* the fallback reply is appended to the sender's history, persisted as
\* "ai_response", and published if the session is connected.
GenerationFailed(task) ==
    "fail:search_memories" \in Events(task) \/ "fail:generate_response" \in Events(task)

C9_FallbackAlwaysPersisted ==
    \A t \in DOMAIN tasks :
        (GenerationFailed(tasks[t]) /\ tasks[t].pc = "done") =>
           /\ Turn("assistant", FALLBACK_RESPONSE)
                 \in Turns(agents[tasks[t].agent], tasks[t].sender)
           /\ "ok:add_memory:ai_response" \in Events(tasks[t])
           /\ "call:publish_data" \in Events(tasks[t]) \/ tasks[t].outcome = "not_connected"

\* C9 (amended): when the memory search or the completion request fails, the
\* reply is the fallback: it is appended to the sender's history and a write
\* of type "ai_response" is requested for it; when that write succeeds the
\* reply is published exactly if the session is connected at that moment,
\* and when the write fails the turn ends with nothing published.
C9_FallbackReply ==
    [][ /\ \A t \in DOMAIN tasks' :
              GenerationFailed(tasks'[t]) =>
                 /\ tasks'[t].response = FALLBACK_RESPONSE
                 /\ Turn("assistant", FALLBACK_RESPONSE)
                       \in Turns(agents'[tasks'[t].agent], tasks'[t].sender)
                 /\ "call:add_memory:ai_response" \in Events(tasks'[t])
        /\ \A t \in DOMAIN tasks :
              (GenerationFailed(tasks[t]) /\ tasks[t].pc = "add_ai" /\ StepOf(t)) =>
                 IF "ok:add_memory:ai_response" \in Events(tasks'[t])
                 THEN is_connected(agents[tasks[t].agent])
                         <=> "call:publish_data" \in Events(tasks'[t])
                 ELSE /\ "fail:add_memory:ai_response" \in Events(tasks'[t])
                      /\ tasks'[t].pc = "done"
                      /\ ~("call:publish_data" \in Events(tasks'[t])) ]_vars

C9_Witness ==
    \E t \in DOMAIN tasks :
        /\ "fail:generate_response" \in Events(tasks[t])
        /\ tasks[t].response = FALLBACK_RESPONSE
        /\ tasks[t].outcome = "sent"

\* C11: a persistence failure during the turn protocol (add_memory failing
\* for the user turn or for the assistant turn) ends the run of the turn
\* handler in an error its caller can observe: the task raises instead of
\* completing normally.
PersistenceFailed(task) ==
    UserWriteFail \in Events(task) \/ "fail:add_memory:ai_response" \in Events(task)

C11_PersistenceFailureSurfaced ==
    \A t \in DOMAIN tasks :
        (PersistenceFailed(tasks[t]) /\ tasks[t].pc = "done") => tasks[t].result = "raised"

\* C10: after a provider-initiated disconnected event for a registered
\* session the registry no longer holds a session for that room, and
\* status(room) reports inactive.
C10_DisconnectUnregisters ==
    [][ \A room \in DOMAIN active_agents :
          EvDisconnected(active_agents[room]) =>
             /\ ~Registered(room)'
             /\ ~(get_agent_status(room).active)' ]_vars

\* C12: with the session connected and the memory service and the language
\* model healthy, every non-empty message from another participant results
\* in a reply published to the room; every request of the MemoryClient is
\* answered as the routes and fields of the memory service allow.  Stated on
\* finished turns: a turn that has ended while the session is still
\* connected has published its reply.
C12_HealthyTurnPublishes ==
    \A t \in DOMAIN tasks :
        ( /\ tasks[t].pc = "done"
          /\ tasks[t].sender \in HumanUsers
          /\ tasks[t].payload.valid
          /\ ~AllWhitespace(message_text(tasks[t].payload))
          /\ is_connected(agents[tasks[t].agent]) )
        => "ok:publish_data" \in Events(tasks[t])

\* C13: POST /agents/start for a room the provider reports as absent returns
\* 404 and creates no session: AgentManager.start_agent is not called, no
\* ChatAgent is constructed and active_agents is unchanged.
C13_StartOnAbsentRoom ==
    [][ \A f \in Suspended :
          GetRoomFails(f, TRUE) =>
             /\ last'.op = "start" /\ last'.room = f.room
             /\ last'.code = 404
             /\ last'.entered = "none"
             /\ calls' = Resume(f)
             /\ UNCHANGED << active_agents, agents, tasks >> ]_vars

C13_Witness ==
    /\ last = StartRejected(<< "r" >>, 404)
    /\ ~Registered(<< "r" >>)
    /\ \A a \in DOMAIN agents : agents[a].room_name # << "r" >> \/ agents[a].room = None

\* C14: a memory search with limit outside 1..20 is rejected as a caller
\* input error (a 4xx answer) and mem0_client.search is never invoked for it;
\* for every limit in 1..20 with non-blank username and query the adapter is
\* invoked exactly once, with that limit.
C14_SearchLimit ==
    (svc.op = "search" /\ svc.pc = "done" /\ svc.limit # Absent) =>
        /\ (ValueOf(svc.limit) < 1 \/ ValueOf(svc.limit) > 20) =>
              /\ svc.response.code \in 400..499
              /\ svc.adapter = << >>
        /\ ( /\ ValueOf(svc.limit) \in 1..20
             /\ ~AllWhitespace(svc.username)
             /\ ~AllWhitespace(svc.query) ) =>
              /\ Len(svc.adapter) = 1
              /\ svc.adapter[1].fn = "search"
              /\ svc.adapter[1].limit = ValueOf(svc.limit)

C14_Witness ==
    /\ svc.op = "search" /\ svc.pc = "done"
    /\ svc.limit = Some(21) /\ svc.username = << "u" >> /\ svc.query = << "q" >>
    /\ svc.response.code = 422 /\ svc.adapter = << >>

\* C15: _format_memories returns exactly the provider records that have a
\* non-empty value in at least one of text, content or memory, in the
\* provider's order, dropping all others; the count reported in the response
\* equals the number of records kept.
HasSomeText(rec) ==
    \/ rec.text # Absent /\ ValueOf(rec.text) # << >>
    \/ rec.content # Absent /\ ValueOf(rec.content) # << >>
    \/ rec.memory # Absent /\ ValueOf(rec.memory) # << >>

FirstText(rec) ==
    IF rec.text # Absent /\ ValueOf(rec.text) # << >> THEN ValueOf(rec.text)
    ELSE IF rec.content # Absent /\ ValueOf(rec.content) # << >> THEN ValueOf(rec.content)
    ELSE ValueOf(rec.memory)

C15_FormatKeepsRecordsWithText ==
    (svc.op = "format" /\ svc.pc = "done") =>
        LET kept == SelectSeq(svc.results, HasSomeText)
        IN  /\ Len(svc.response.memories) = Len(kept)
            /\ \A i \in 1..Len(kept) : svc.response.memories[i].text = FirstText(kept[i])
            /\ svc.response.count = Len(kept)

\* C16: validate_room_name accepts a name if and only if, after trimming, its
\* length is 1..100 and every character is a letter, a digit, an underscore,
\* a hyphen or a space; a whitespace-only name posted to /rooms/create is
\* answered 400 with error_code INVALID_ROOM_NAME.
DocumentedNameChars == { "a", "7", "_", "-", WS }

DocumentedValidName(room_name) ==
    LET trimmed == StripName(room_name)
    IN  /\ NameLen(trimmed) \in 1..100
        /\ \A i \in 1..Len(trimmed) : trimmed[i].ch \in DocumentedNameChars

WhitespaceOnlyName(room_name) ==
    room_name # << >> /\ \A i \in 1..Len(room_name) : IsSpace(room_name[i].ch)

RejectedAsInvalidName == svc.response = CreateResponse(400, "INVALID_ROOM_NAME")

C16_RoomNameValidation ==
    (svc.op = "create_room" /\ svc.pc # "received") =>
        /\ validate_room_name(svc.room_name) <=> DocumentedValidName(svc.room_name)
        /\ RejectedAsInvalidName <=> ~DocumentedValidName(svc.room_name)
        /\ WhitespaceOnlyName(svc.room_name) => RejectedAsInvalidName

\* C17: a /rooms/create request with an invalid room name, max_participants
\* outside 1..1000, empty_timeout outside 10..86400 or metadata larger than
\* 1024 characters is answered 400 and makes no call to the room provider
\* (neither get_room nor create_room); create_room on the provider is reached
\* only when all four validations pass.
OutsideRange(opt, low, high) == opt # Absent /\ ValueOf(opt) \notin low..high

InvalidCreateRequest ==
    \/ ~DocumentedValidName(svc.room_name)
    \/ OutsideRange(svc.max_participants, 1, 1000)
    \/ OutsideRange(svc.empty_timeout, 10, 86400)
    \/ svc.metadata # Absent /\ ValueOf(svc.metadata) > 1024

ProviderReached(fn) == \E i \in 1..Len(svc.adapter) : svc.adapter[i].fn = fn

C17_InvalidCreateMakesNoProviderCall ==
    (svc.op = "create_room" /\ svc.pc # "received") =>
        /\ InvalidCreateRequest =>
              /\ svc.pc = "done" /\ svc.response.code = 400
              /\ svc.adapter = << >>
        /\ ProviderReached("create_room") =>
              /\ validate_room_name(svc.room_name)
              /\ validate_participants_count(svc.max_participants)
              /\ validate_empty_timeout(svc.empty_timeout)
              /\ validate_metadata(svc.metadata)

\* C18: on a disconnected event, provider-initiated or self-initiated, the
\* session becomes not-running and its connection handle is released:
\* afterwards _running is false and the session holds no room handle.
Released(ag) == ~ag.running /\ ag.room = None

C18_DisconnectedReleasesHandle ==
    [][ /\ \A a \in DOMAIN agents : EvDisconnected(a) => Released(agents'[a])
        /\ \A f \in Suspended : StopDisconnectReturns(f) => Released(agents'[f.agent])
      ]_vars

\* C19: ChatAgent.stop() on a session that is not running changes nothing; on
\* a running session it sets not-running, disconnects the room and clears
\* the connection handle and the participant id, so that is_connected() is
\* false once it has returned.
StopReachesAgent(room, via) ==
    /\ ~(via = "handler" /\ (BlankName(room) \/ ~get_agent_status(room).active))
    /\ Registered(room)

Stopped(ag) ==
    /\ ~ag.running /\ ag.room = None /\ ag.participant_id = None
    /\ ag.conn = "disconnected" /\ ~is_connected(ag)

C19_StopSession ==
    [][ /\ \A room \in RoomNames, via \in { "handler", "cleanup" } :
              (StopReachesAgent(room, via) /\ StopRequest(room, via)) =>
                  LET a == active_agents[room]
                  IN  IF ~agents[a].running THEN agents' = agents
                      ELSE /\ ~agents'[a].running
                           /\ \/ Stopped(agents'[a])
                              \/ Frame("stop", via, room, a, "disconnecting") \in BagToSet(calls')
        /\ \A f \in Suspended : StopDisconnectReturns(f) => Stopped(agents'[f.agent])
      ]_vars

C19_Witness ==
    /\ last = StopReturned(<< "r" >>, "handler")
    /\ Len(agents) = 1 /\ Stopped(agents[1])
    /\ ~Registered(<< "r" >>)

\* C20: _send_message publishes only when a connection handle exists and the
\* provider reports the connected state; otherwise it publishes nothing; in
\* every case, a publish failure included, it returns without raising.
HandleConnected(ag) == ag.room # None /\ ag.conn = "connected"

C20_SendMessage ==
    [][ \A t \in DOMAIN tasks :
          /\ (tasks[t].pc = "add_ai" /\ AddAiReturns(t, TRUE)) =>
                IF HandleConnected(agents[tasks[t].agent])
                THEN /\ tasks'[t].pc = "publish"
                     /\ "call:publish_data" \in Events(tasks'[t])
                ELSE /\ "call:publish_data" \notin Events(tasks'[t])
                     /\ tasks'[t].pc = "done" /\ tasks'[t].result = "returned"
          /\ (tasks[t].pc = "publish" /\ StepOf(t)) =>
                /\ tasks'[t].pc = "done" /\ tasks'[t].result = "returned"
                /\ \/ "ok:publish_data" \in Events(tasks'[t])
                   \/ "fail:publish_data" \in Events(tasks'[t])
      ]_vars

C20_Witness ==
    \E t \in DOMAIN tasks :
        /\ tasks[t].pc = "done" /\ tasks[t].result = "returned"
        /\ "fail:publish_data" \in Events(tasks[t])

\* C21: for every participant-joined event, a failure while fetching the
\* participant's memories or generating the greeting is caught and the static
\* fallback greeting is sent instead (handed to _send_message, which publishes
\* it when the session is connected), and no exception escapes
\* _send_greeting; the greeting runs as its own task: the event handler only
\* creates it.
GreetingFailure(task) ==
    "fail:get_memories" \in Events(task) \/ "fail:generate_response" \in Events(task)

C21_GreetingFallback ==
    [][ /\ \A a \in DOMAIN agents, username \in HumanUsers :
              EvParticipantConnected(a, username) =>
                  /\ agents' = agents
                  /\ tasks'[Len(tasks')].pc = "spawned" /\ tasks'[Len(tasks')].trace = << >>
        /\ \A t \in DOMAIN tasks :
              (StepOf(t) /\ GreetingFailure(tasks'[t]) /\ ~GreetingFailure(tasks[t])) =>
                  /\ tasks'[t].sending = FALLBACK_GREETING /\ tasks'[t].sends = 1
                  /\ IF HandleConnected(agents[tasks[t].agent])
                     THEN /\ tasks'[t].pc = "publish"
                          /\ tasks'[t].trace[Len(tasks'[t].trace)] = "call:publish_data"
                     ELSE tasks'[t].pc = "done"
        /\ \A t \in DOMAIN tasks :
              (StepOf(t) /\ tasks'[t].pc = "done") => tasks'[t].result = "returned"
      ]_vars

C21_Witness ==
    \E t \in DOMAIN tasks :
        /\ tasks[t].pc = "done" /\ tasks[t].result = "returned"
        /\ "fail:generate_response" \in Events(tasks[t])
        /\ "ok:publish_data" \in Events(tasks[t])
        /\ tasks[t].sending = FALLBACK_GREETING

\* C22: the message list sent to the language model for a turn contains at
\* most the last 6 turns of the sender's history, and the new user message
\* appears in it exactly once, as the final entry, under every interleaving
\* of turns for that sender.
Occurrences(msgs, turn) == Cardinality({ i \in 1..Len(msgs) : msgs[i] = turn })

C22_MessagesEndWithNewMessageOnce ==
    \A t \in DOMAIN tasks :
        "call:generate_response" \in Events(tasks[t]) =>
            LET msgs == tasks[t].messages
                new == Turn("user", tasks[t].text)
            IN  /\ Len(msgs) >= 1 /\ Len(msgs) <= 6
                /\ msgs[Len(msgs)] = new
                /\ Occurrences(msgs, new) = 1

\* C23: the per-sender history of a session is bounded: after any number of
\* turns from a sender, the length of conversation_history[sender] never
\* exceeds a fixed bound.
C23_HistoryBounded ==
    \A a \in DOMAIN agents :
        \A username \in DOMAIN agents[a].conversation_history :
            Len(agents[a].conversation_history[username]) <= MaxHistory

\* C24: within a turn the assistant reply is appended to the history, then
\* persisted with type "ai_response", then published; a reply is published
\* only after its "ai_response" record was persisted successfully, and the
\* published payload carries message, sender = agent identity, timestamp and
\* type "chat".
Starts(t, ev) == ev \in Events(tasks'[t]) /\ ev \notin Events(tasks[t])

Position(task, ev) == CHOOSE i \in 1..Len(task.trace) : task.trace[i] = ev

C24_AppendPersistPublish ==
    [][ \A t \in DOMAIN tasks : StepOf(t) =>
          LET before == tasks[t]
              after == tasks'[t]
              sender == before.sender
          IN  /\ Starts(t, "call:add_memory:ai_response") =>
                    /\ history_of(agents'[before.agent], sender) =
                          Append(history_of(agents[before.agent], sender),
                                 Turn("assistant", after.response))
                    /\ "call:publish_data" \notin Events(after)
              /\ Starts(t, "call:publish_data") =>
                    /\ "ok:add_memory:ai_response" \in Events(after)
                    /\ Position(after, "call:add_memory:ai_response")
                          < Position(after, "ok:add_memory:ai_response")
                    /\ Position(after, "ok:add_memory:ai_response")
                          < Position(after, "call:publish_data")
                    /\ after.packet.message = after.response
                    /\ after.packet.sender = agent_username
                    /\ after.packet.type = "chat"
                    /\ "timestamp" \in DOMAIN after.packet
              /\ ~Starts(t, "call:publish_data") => after.packet = before.packet
      ]_vars

C24_Witness ==
    \E t \in DOMAIN tasks :
        /\ "ok:publish_data" \in Events(tasks[t])
        /\ tasks[t].packet = [ message |-> << "o", "k" >>, sender |-> agent_username,
                               timestamp |-> "now", type |-> "chat" ]

\* C25: with two inbound messages from the same sender in flight at once
\* (each handled by its own task, no mutual exclusion), some interleaving
\* produces a per-sender history whose order of turns differs from the order
\* that handling the messages one at a time in arrival order would produce.
\* The history keeps the serial order exactly until a reply is appended
\* after the user turn of a message that arrived later; the witness is a run
\* in which that happens.
TurnsOf(task) ==
    (IF "call:add_memory:user_message" \in Events(task)
     THEN << Turn("user", task.text) >> ELSE << >>)
    \o (IF "call:add_memory:ai_response" \in Events(task)
        THEN << Turn("assistant", task.response) >> ELSE << >>)

RECURSIVE SerialHistory(_)
SerialHistory(ts) == IF ts = << >> THEN << >> ELSE TurnsOf(Head(ts)) \o SerialHistory(Tail(ts))

InSerialOrder(ags, ts) == history_of(ags[1], "alice") = SerialHistory(ts)

C25_HistoryOrderRace ==
    [][ \A t \in DOMAIN tasks : StepOf(t) =>
          /\ Starts(t, "call:add_memory:user_message") =>
                (InSerialOrder(agents', tasks') <=> InSerialOrder(agents, tasks))
          /\ Starts(t, "call:add_memory:ai_response") =>
                (InSerialOrder(agents', tasks') <=>
                    /\ InSerialOrder(agents, tasks)
                    /\ \A u \in DOMAIN tasks : u > t => tasks[u].pc = "spawned")
      ]_vars

C25_Witness ==
    /\ Len(tasks) = 2
    /\ \A t \in DOMAIN tasks : tasks[t].pc = "done" /\ "ok:publish_data" \in Events(tasks[t])
    /\ ~InSerialOrder(agents, tasks)

\* C26: when start_agent(room) reports a newly started session, the session
\* is connected and the participant id it returns is the provider-assigned
\* id captured on connect (non-null), whenever the connected event is
\* delivered relative to the return of connect.
ReportsStarted == last.op = "start" /\ last.entered = "start_agent" /\ last.status = "started"

C26_StartedReturnsProviderId ==
    ReportsStarted =>
        LET a == active_agents[last.room]
        IN  /\ is_connected(agents[a])
            /\ last.participant_id # None
            /\ last.participant_id = Sid(a)

\* C27: two concurrent stop_agent calls for the same registered room both
\* complete without raising, under every interleaving, and afterwards the
\* room has no registered session.  (Stated for runs with a single session,
\* so that no start takes part.)
C27_ConcurrentStopsComplete ==
    (Len(agents) = 1 /\ last.op = "stop" /\ last.entered = "stop_agent") =>
        /\ ~last.raised
        /\ ~Registered(last.room)

\* C28: start_agent(room) never reports success ("started" or
\* "already_active") for a room whose registered session is not running; in
\* particular, after a provider-initiated disconnect of the room's session
\* a later start_agent(room) establishes a running session.
ReportsSuccess ==
    /\ last.op = "start" /\ last.entered = "start_agent" /\ ~last.raised
    /\ last.status \in { "started", "already_active" }

C28_SuccessMeansRunning ==
    ReportsSuccess =>
        /\ Registered(last.room)
        /\ agents[active_agents[last.room]].running

\* C29: whenever no turn is in flight for a sender, every turn in that
\* sender's in-memory history has been durably persisted through the memory
\* client, including after a turn aborted by a failed add_memory.
PersistedTurns(task) ==
    (IF "ok:add_memory:user_message" \in Events(task)
     THEN { Turn("user", task.text) } ELSE { })
    \cup (IF "ok:add_memory:ai_response" \in Events(task)
          THEN { Turn("assistant", task.response) } ELSE { })

NoTurnInFlight(sender) ==
    \A t \in DOMAIN tasks : tasks[t].sender = sender => tasks[t].pc = "done"

C29_HistoryIsPersisted ==
    \A a \in DOMAIN agents :
        \A sender \in DOMAIN agents[a].conversation_history :
            NoTurnInFlight(sender) =>
                \A i \in 1..Len(agents[a].conversation_history[sender]) :
                    \E t \in DOMAIN tasks :
                        /\ tasks[t].agent = a /\ tasks[t].sender = sender
                        /\ agents[a].conversation_history[sender][i] \in PersistedTurns(tasks[t])

\* C30: for every non-empty inbound message from another participant whose
\* user-turn persistence succeeds, the turn appends exactly one assistant
\* turn to that sender's history and attempts exactly one publish, whatever
\* text the language model returns (empty content included) and whether or
\* not the model call fails.  The publish attempt is the call of
\* _send_message, which follows the persisted assistant turn.
AssistantReplies(history) == SelectSeq(history, LAMBDA turn : turn.role = "assistant")

SendMessageEntered(task) == task.outcome \in { "sent", "send_failed", "not_connected" }

C30_OneReplyPerMessage ==
    \A t \in DOMAIN tasks :
        ( /\ tasks[t].pc = "done"
          /\ "ok:add_memory:user_message" \in Events(tasks[t])
          /\ \A u \in DOMAIN tasks : u # t => tasks[u].pc = "spawned" ) =>
            /\ Len(AssistantReplies(history_of(agents[tasks[t].agent], tasks[t].sender))) = 1
            /\ "ok:add_memory:ai_response" \in Events(tasks[t]) => SendMessageEntered(tasks[t])

====
